---- MODULE Spec2Model ----
(***************************************************************************)
(* Deck builder of create_kpi_smart_objectives_ppt.py.                     *)
(*                                                                         *)
(* main() calls create_presentation(), which creates an empty deck and     *)
(* issues a fixed script of constructor calls (add_title_slide,            *)
(* add_content_slide, add_two_column_slide, add_table_slide,               *)
(* add_chart_slide), each appending one slide to the deck; main() then     *)
(* saves the deck once and prints the slide total.                         *)
(*                                                                         *)
(* The constructors are modelled as operators from a deck and the call's   *)
(* arguments to the new deck and a flag telling whether the call returned  *)
(* or raised.  The script of calls is an input: it is drawn in Init.       *)
(*                                                                         *)
(* Sequences are 1-based here and 0-based in the source: the source's      *)
(* row_idx, col_idx and idx keep their 0-based values and are shifted by   *)
(* one where a sequence is indexed.                                        *)
(***************************************************************************)
EXTENDS Integers, Sequences, FiniteSets, TLC

VARIABLES
    script,    \* the constructor calls create_presentation issues, in order
    k,         \* number of calls of the script that have been made
    slides,    \* prs.slides: the deck, in order
    pc,        \* position of main(): "build", "save", "done", or where it
               \* ended on an exception: "constructor_raised", "save_raised"
    raised_at, \* the call of the script (1-based) that raised, 0 when none did
    file,      \* content of the output file: NoFile, or the saved deck
    writes,    \* number of times prs.save wrote the file
    reported   \* the slide total printed by main(), -1 before it is printed

vars == <<script, k, slides, pc, raised_at, file, writes, reported>>

(***************************************************************************)
(* Bounds of the model.                                                    *)
(***************************************************************************)
MaxSlides == 2   \* calls in a script of a whole run
MaxItems == 2    \* items of a bullet list
MaxCols == 2     \* headers of a table
MaxRows == 2     \* body rows of a table
MaxCats == 2     \* categories of a chart

(***************************************************************************)
(* Texts the requests are drawn from.                                      *)
(***************************************************************************)
TitleTexts == {"Workshop", "DAY 1"}
SubtitleTexts == {"", "Subtitle"}
ItemTexts == {"", "a"}
HeaderTexts == {"", "h"}
CellTexts == {"x"}
CategoryTexts == {"Q"}
SeriesNames == {"Actual", "Target"}
SeriesValues == {16}
ChartTypes == {"COLUMN_CLUSTERED", "LINE"}

SeqsUpTo(S, lo, hi) == UNION {[1..n -> S] : n \in lo..hi}

(***************************************************************************)
(* Styling constants of the source.                                        *)
(***************************************************************************)
DarkBlue == "RGBColor(0, 51, 102)"
White == "RGBColor(255, 255, 255)"
ShadeBlue == "RGBColor(220, 230, 241)"
NoFill == "no fill"
NoColor == "inherited"

(***************************************************************************)
(* A text frame is the sequence of its paragraphs' texts.  A new text box  *)
(* and a cleared text frame hold one empty paragraph; add_paragraph        *)
(* appends one.                                                            *)
(***************************************************************************)
\* A faulty NewTextFrame: the frame starts with no paragraph at all.
NoParagraphFrame == <<>>

NewTextFrame == <<"">>

\* A faulty AddParagraphs: items that are the empty string are skipped.
RECURSIVE AddParagraphsSkipEmpty(_, _)
AddParagraphsSkipEmpty(frame, items) ==
    IF items = <<>> THEN frame
    ELSE IF Head(items) = "" THEN AddParagraphsSkipEmpty(frame, Tail(items))
    ELSE AddParagraphsSkipEmpty(Append(frame, Head(items)), Tail(items))

RECURSIVE AddParagraphs(_, _)
AddParagraphs(frame, items) ==
    IF items = <<>> THEN frame
    ELSE AddParagraphs(Append(frame, Head(items)), Tail(items))

(***************************************************************************)
(* Placeholders of the layouts of the default template that the            *)
(* constructors use: 0 Title Slide (title, subtitle), 1 Title and Content  *)
(* (title, body), 3 Two Content (title, two bodies), 5 Title Only (title). *)
(***************************************************************************)
LayoutPlaceholders(layout) ==
    CASE layout = 0 -> 2
      [] layout = 1 -> 2
      [] layout = 3 -> 3
      [] OTHER -> 1

NoTable == [num_rows |-> 0, num_cols |-> 0, cells |-> <<>>]
NoChart == [present |-> FALSE, chart_type |-> "", categories |-> <<>>,
            series |-> <<>>, legend |-> ""]

\* A slide just added by prs.slides.add_slide(layout): no text set yet.
BlankSlide(kind, layout) ==
    [kind |-> kind, layout |-> layout, title |-> "", subtitle |-> "",
     body |-> <<>>, left |-> <<>>, right |-> <<>>,
     table |-> NoTable, chart |-> NoChart]

\* The result of a constructor call: the deck after it, and whether the call
\* returned (TRUE) or raised (FALSE).
Returned(deck) == [slides |-> deck, ok |-> TRUE]
Raised(deck) == [slides |-> deck, ok |-> FALSE]

\* A faulty add_slide: the new slide is put in front of the deck.
add_slide_front(deck, slide) == <<slide>> \o deck

\* prs.slides.add_slide: the new slide goes to the end of the deck.
add_slide(deck, slide) == Append(deck, slide)

\* A faulty SetLast: the constructor writes into the deck's first slide.
SetFirst(deck, slide) == [deck EXCEPT ![1] = slide]

\* The constructors write into the slide they just added: the deck's last.
SetLast(deck, slide) == [deck EXCEPT ![Len(deck)] = slide]


\* A faulty add_title_slide: the subtitle placeholder is never written.
add_title_slide_no_subtitle(prs, title, subtitle) ==
    LET deck == add_slide(prs, BlankSlide("title", 0))
        slide == deck[Len(deck)]
    IN  Returned(SetLast(deck, [slide EXCEPT !.title = title]))

(***************************************************************************)
(* add_title_slide(prs, title, subtitle="")                                *)
(***************************************************************************)
add_title_slide(prs, title, subtitle) ==
    LET slide_layout == 0
        deck == add_slide(prs, BlankSlide("title", slide_layout))
        slide == deck[Len(deck)]
        titled == [slide EXCEPT !.title = title]
        done == IF subtitle # "" /\ LayoutPlaceholders(slide_layout) > 1
                THEN [titled EXCEPT !.subtitle = subtitle]
                ELSE titled
    IN  Returned(SetLast(deck, done))

\* A faulty add_content_slide: the first item goes into the frame's first
\* paragraph, so content_list[0] raises IndexError on an empty list.
add_content_slide_first(prs, title, content_list) ==
    LET deck == add_slide(prs, BlankSlide("content", 1))
        slide == deck[Len(deck)]
    IN  IF content_list = <<>>
        THEN Raised(SetLast(deck, [slide EXCEPT !.title = title]))
        ELSE Returned(SetLast(deck, [slide EXCEPT !.title = title,
                                                  !.body = content_list]))

(***************************************************************************)
(* add_content_slide(prs, title, content_list)                             *)
(***************************************************************************)
add_content_slide(prs, title, content_list) ==
    LET slide_layout == 1
        deck == add_slide(prs, BlankSlide("content", slide_layout))
        slide == deck[Len(deck)]
        text_frame == AddParagraphs(NewTextFrame, content_list)
    IN  Returned(SetLast(deck, [slide EXCEPT !.title = title,
                                             !.body = text_frame]))

\* A faulty add_two_column_slide: the right column loop iterates over
\* left_content as well.
add_two_column_slide_left_twice(prs, title, left_content, right_content) ==
    LET deck == add_slide(prs, BlankSlide("two_column", 3))
        slide == deck[Len(deck)]
        left_frame == AddParagraphs(NewTextFrame, left_content)
    IN  Returned(SetLast(deck, [slide EXCEPT !.title = title,
                                             !.left = left_frame,
                                             !.right = left_frame]))

(***************************************************************************)
(* add_two_column_slide(prs, title, left_content, right_content)           *)
(***************************************************************************)
add_two_column_slide(prs, title, left_content, right_content) ==
    LET slide_layout == 3
        deck == add_slide(prs, BlankSlide("two_column", slide_layout))
        slide == deck[Len(deck)]
        left_frame == AddParagraphs(NewTextFrame, left_content)
        right_frame == AddParagraphs(NewTextFrame, right_content)
    IN  Returned(SetLast(deck, [slide EXCEPT !.title = title,
                                             !.left = left_frame,
                                             !.right = right_frame]))

(***************************************************************************)
(* Tables.  A cell holds its text, its fill and the font settings of its   *)
(* runs.  Setting a cell's text to the empty string leaves the cell        *)
(* without a run, so the loops over paragraph.runs set nothing then.       *)
(***************************************************************************)
NewCell == [text |-> "", fill |-> NoFill, font_color |-> NoColor,
            bold |-> FALSE, font_size |-> 0]

\* A faulty add_table: the row and column counts are taken the other way
\* round.
add_table_swapped(num_rows, num_cols) ==
    [num_rows |-> num_cols, num_cols |-> num_rows,
     cells |-> [r \in 1..num_cols |-> [c \in 1..num_rows |-> NewCell]]]

\* slide.shapes.add_table(num_rows, num_cols, ...).table
add_table(num_rows, num_cols) ==
    [num_rows |-> num_rows, num_cols |-> num_cols,
     cells |-> [r \in 1..num_rows |-> [c \in 1..num_cols |-> NewCell]]]

\* table.cell(row_idx, col_idx) raises IndexError outside the grid.
CellExists(table, row_idx, col_idx) ==
    row_idx < table.num_rows /\ col_idx < table.num_cols

HasRuns(text) == text # ""

\* A faulty HeaderCell: the runs are styled but the cell gets no fill.
HeaderCellNoFill(header) ==
    [text |-> header, fill |-> NoFill,
     font_color |-> IF HasRuns(header) THEN White ELSE NoColor,
     bold |-> HasRuns(header),
     font_size |-> IF HasRuns(header) THEN 16 ELSE 0]

\* The body of the header loop for one header.
HeaderCell(header) ==
    [text |-> header, fill |-> DarkBlue,
     font_color |-> IF HasRuns(header) THEN White ELSE NoColor,
     bold |-> HasRuns(header),
     font_size |-> IF HasRuns(header) THEN 16 ELSE 0]

\* if row_idx % 2 == 0: the cell gets the solid shaded fill.
RowFill(row_idx) == IF row_idx % 2 = 0 THEN ShadeBlue ELSE NoFill

\* The body of the row loop for one cell.
BodyCell(row_idx, cell_text) ==
    [text |-> cell_text, fill |-> RowFill(row_idx), font_color |-> NoColor,
     bold |-> FALSE,
     font_size |-> IF HasRuns(cell_text) THEN 14 ELSE 0]

\* for idx, header in enumerate(headers): from index idx on.
RECURSIVE SetHeaders(_, _, _)
SetHeaders(table, headers, idx) ==
    IF idx >= Len(headers) THEN table
    ELSE SetHeaders([table EXCEPT !.cells[1][idx + 1] = HeaderCell(headers[idx + 1])],
                    headers, idx + 1)

\* A faulty SetRowCells: the header row is not skipped, body row row_idx is
\* written into grid row row_idx.
RECURSIVE SetRowCellsNoOffset(_, _, _, _)
SetRowCellsNoOffset(st, row_idx, row, col_idx) ==
    IF col_idx >= Len(row) THEN st
    ELSE IF ~CellExists(st.table, row_idx, col_idx)
         THEN [st EXCEPT !.ok = FALSE]
         ELSE SetRowCellsNoOffset(
                [st EXCEPT !.table.cells[row_idx + 1][col_idx + 1] =
                               BodyCell(row_idx, row[col_idx + 1])],
                row_idx, row, col_idx + 1)

\* for col_idx, cell_text in enumerate(row): from index col_idx on.  st is
\* the table so far and whether every cell lookup so far succeeded.
RECURSIVE SetRowCells(_, _, _, _)
SetRowCells(st, row_idx, row, col_idx) ==
    IF col_idx >= Len(row) THEN st
    ELSE IF ~CellExists(st.table, row_idx + 1, col_idx)
         THEN [st EXCEPT !.ok = FALSE]
         ELSE SetRowCells(
                [st EXCEPT !.table.cells[row_idx + 2][col_idx + 1] =
                               BodyCell(row_idx, row[col_idx + 1])],
                row_idx, row, col_idx + 1)

\* A faulty SetRows: a row whose length differs from the column count is
\* rejected before any of its cells is written.
RECURSIVE SetRowsStrict(_, _, _)
SetRowsStrict(st, rows, row_idx) ==
    IF ~st.ok \/ row_idx >= Len(rows) THEN st
    ELSE IF Len(rows[row_idx + 1]) # st.table.num_cols
         THEN [st EXCEPT !.ok = FALSE]
         ELSE SetRowsStrict(SetRowCells(st, row_idx, rows[row_idx + 1], 0),
                            rows, row_idx + 1)

\* for row_idx, row in enumerate(rows): from index row_idx on; the loop ends
\* at the first cell lookup that raises.
RECURSIVE SetRows(_, _, _)
SetRows(st, rows, row_idx) ==
    IF ~st.ok \/ row_idx >= Len(rows) THEN st
    ELSE SetRows(SetRowCells(st, row_idx, rows[row_idx + 1], 0), rows, row_idx + 1)

\* A faulty add_table_slide: the rows are rendered before the slide is
\* appended, so a failing row leaves the deck as it was.
add_table_slide_append_last(prs, title, headers, rows) ==
    LET table == SetHeaders(add_table(Len(rows) + 1, Len(headers)), headers, 0)
        st == SetRows([table |-> table, ok |-> TRUE], rows, 0)
        deck == add_slide(prs, BlankSlide("table", 5))
        slide == deck[Len(deck)]
    IN  IF st.ok
        THEN Returned(SetLast(deck, [slide EXCEPT !.title = title, !.table = st.table]))
        ELSE Raised(prs)

(***************************************************************************)
(* add_table_slide(prs, title, headers, rows)                              *)
(***************************************************************************)
add_table_slide(prs, title, headers, rows) ==
    LET slide_layout == 5
        deck == add_slide(prs, BlankSlide("table", slide_layout))
        slide == deck[Len(deck)]
        num_rows == Len(rows) + 1
        num_cols == Len(headers)
        table == SetHeaders(add_table(num_rows, num_cols), headers, 0)
        st == SetRows([table |-> table, ok |-> TRUE], rows, 0)
        built == SetLast(deck, [slide EXCEPT !.title = title, !.table = st.table])
    IN  IF st.ok THEN Returned(built) ELSE Raised(built)

(***************************************************************************)
(* Charts.  chart_data_dict is [categories, series]; series is the dict's  *)
(* items in insertion order, each [name, values].                          *)
(***************************************************************************)
\* chart_data.add_series(series_name, values)
add_series(chart_data, series_name, values) ==
    [chart_data EXCEPT !.series = Append(@, [name |-> series_name, values |-> values])]

\* for series_name, values in chart_data_dict['series'].items()
RECURSIVE AddAllSeries(_, _)
AddAllSeries(chart_data, items) ==
    IF items = <<>> THEN chart_data
    ELSE AddAllSeries(add_series(chart_data, Head(items).name, Head(items).values),
                      Tail(items))

(***************************************************************************)
(* add_chart_slide(prs, title, chart_data_dict, chart_type)                *)
(***************************************************************************)
add_chart_slide(prs, title, chart_data_dict, chart_type) ==
    LET slide_layout == 5
        deck == add_slide(prs, BlankSlide("chart", slide_layout))
        slide == deck[Len(deck)]
        chart_data == AddAllSeries([categories |-> chart_data_dict.categories,
                                    series |-> <<>>],
                                   chart_data_dict.series)
        chart == [present |-> TRUE, chart_type |-> chart_type,
                  categories |-> chart_data.categories,
                  series |-> chart_data.series, legend |-> "BOTTOM"]
    IN  Returned(SetLast(deck, [slide EXCEPT !.title = title, !.chart = chart]))


(***************************************************************************)
(* The calls a script may hold: the arguments of one constructor call.     *)
(* A table call may have rows shorter or longer than the header list, a    *)
(* chart call may have series shorter or longer than the category list:    *)
(* the constructors take them as they come.  Tables have at least one      *)
(* header, charts at least one category and series at least one value.     *)
(***************************************************************************)
InjectiveSeqs(S) ==
    {q \in SeqsUpTo(S, 0, Cardinality(S)) :
        \A i, j \in 1..Len(q) : i # j => q[i] # q[j]}

TitleCalls(titles) ==
    [kind : {"title"}, title : titles, subtitle : SubtitleTexts]

ContentCalls(maxItems) ==
    [kind : {"content"}, title : {"T"}, items : SeqsUpTo(ItemTexts, 0, maxItems)]

TwoColumnCalls(maxItems) ==
    [kind : {"two_column"}, title : {"T"},
     left : SeqsUpTo(ItemTexts, 0, maxItems),
     right : SeqsUpTo(ItemTexts, 0, maxItems)]

TableCalls(maxCols, maxRows) ==
    [kind : {"table"}, title : {"T"},
     headers : SeqsUpTo(HeaderTexts, 1, maxCols),
     rows : SeqsUpTo(SeqsUpTo(CellTexts, 0, maxCols + 1), 0, maxRows)]

ChartCalls(maxCats, names, types) ==
    [kind : {"chart"}, title : {"T"}, chart_type : types,
     chart_data_dict :
        [categories : SeqsUpTo(CategoryTexts, 1, maxCats),
         series : {[i \in 1..Len(q) |-> [name |-> q[i], values |-> v[i]]] :
                     <<q, v>> \in {<<q, v>> \in
                         InjectiveSeqs(names) \X
                         SeqsUpTo(SeqsUpTo(SeriesValues, 1, maxCats + 1), 0,
                                  Cardinality(names)) :
                         Len(q) = Len(v)}}]]

\* Every call within the bounds: the calls a single constructor is tried on.
Calls ==
    TitleCalls(TitleTexts) \cup ContentCalls(MaxItems)
        \cup TwoColumnCalls(MaxItems) \cup TableCalls(MaxCols, MaxRows)
        \cup ChartCalls(MaxCats, SeriesNames, ChartTypes)

\* The short calls the scripts of whole runs are made of.
RunCalls ==
    TitleCalls({"Workshop"}) \cup ContentCalls(1) \cup TwoColumnCalls(1)
        \cup TableCalls(1, 1) \cup ChartCalls(1, {"Actual"}, {"LINE"})

(***************************************************************************)
(* main() and create_presentation()                                        *)
(***************************************************************************)
NoFile == [written |-> FALSE, slides |-> <<>>]

\* prs = Presentation(): the default template holds no slide.
NewPresentation == <<>>

\* A faulty AfterCall: the exception of a constructor is swallowed and the
\* script goes on.
AfterCallSwallowed(ok) == "build"

\* A constructor that raises ends create_presentation and main: nothing
\* catches the exception.
AfterCall(ok) == IF ok THEN "build" ELSE "constructor_raised"

\* The state after one call of the script whose result is r.
Called(r) ==
    /\ slides' = r.slides
    /\ k' = IF r.ok THEN k + 1 ELSE k
    /\ raised_at' = IF r.ok THEN raised_at ELSE k + 1
    /\ pc' = AfterCall(r.ok)
    /\ UNCHANGED <<script, file, writes, reported>>

NextCallIs(kind) ==
    /\ pc = "build"
    /\ k < Len(script)
    /\ script[k + 1].kind = kind

AddTitle ==
    /\ NextCallIs("title")
    /\ LET c == script[k + 1]
       IN  Called(add_title_slide(slides, c.title, c.subtitle))

AddContent ==
    /\ NextCallIs("content")
    /\ LET c == script[k + 1]
       IN  Called(add_content_slide(slides, c.title, c.items))

AddTwoColumn ==
    /\ NextCallIs("two_column")
    /\ LET c == script[k + 1]
       IN  Called(add_two_column_slide(slides, c.title, c.left, c.right))

AddTable ==
    /\ NextCallIs("table")
    /\ LET c == script[k + 1]
       IN  Called(add_table_slide(slides, c.title, c.headers, c.rows))

AddChart ==
    /\ NextCallIs("chart")
    /\ LET c == script[k + 1]
       IN  Called(add_chart_slide(slides, c.title, c.chart_data_dict, c.chart_type))

\* A faulty Return: create_presentation returns before the script's end.
ReturnEarly ==
    /\ pc = "build"
    /\ pc' = "save"
    /\ UNCHANGED <<script, k, slides, raised_at, file, writes, reported>>

\* return prs: every call of the script has been made.
Return ==
    /\ pc = "build"
    /\ k = Len(script)
    /\ pc' = "save"
    /\ UNCHANGED <<script, k, slides, raised_at, file, writes, reported>>

\* A faulty Save: the slide total printed is one more than the deck's length.
SaveMiscount ==
    /\ pc = "save"
    /\ file' = [written |-> TRUE, slides |-> slides]
    /\ writes' = writes + 1
    /\ reported' = Len(slides) + 1
    /\ pc' = "done"
    /\ UNCHANGED <<script, k, slides, raised_at>>

\* prs.save(output_file) writes the deck, then main prints the slide total.
Save ==
    /\ pc = "save"
    /\ file' = [written |-> TRUE, slides |-> slides]
    /\ writes' = writes + 1
    /\ reported' = Len(slides)
    /\ pc' = "done"
    /\ UNCHANGED <<script, k, slides, raised_at>>

\* prs.save(output_file) raises: the output path cannot be written.
SaveRaises ==
    /\ pc = "save"
    /\ pc' = "save_raised"
    /\ UNCHANGED <<script, k, slides, raised_at, file, writes, reported>>

Start ==
    /\ k = 0
    /\ slides = NewPresentation
    /\ pc = "build"
    /\ raised_at = 0
    /\ file = NoFile
    /\ writes = 0
    /\ reported = -1

\* A whole run on a script of up to MaxSlides short calls.
Init == script \in SeqsUpTo(RunCalls, 0, MaxSlides) /\ Start

\* One constructor call, on any call within the bounds.
InitCall == script \in SeqsUpTo(Calls, 1, 1) /\ Start

Next ==
    \/ AddTitle
    \/ AddContent
    \/ AddTwoColumn
    \/ AddTable
    \/ AddChart
    \/ Return
    \/ Save
    \/ SaveRaises

Spec == Init /\ [][Next]_vars

SpecCall == InitCall /\ [][Next]_vars


\* The title call and the table call of the end-to-end scenario.
EndToEndTitle == [kind |-> "title", title |-> "Workshop", subtitle |-> "Subtitle"]

EndToEndTable ==
    [kind |-> "table", title |-> "T", headers |-> <<"A", "B">>,
     rows |-> <<<<"1", "2">>, <<"3", "4">>>>]

\* Whole runs on scripts of the short calls and the scenario's calls.
InitEndToEnd ==
    /\ script \in SeqsUpTo(RunCalls \cup {EndToEndTitle, EndToEndTable}, 0, MaxSlides)
    /\ Start

SpecEndToEnd == InitEndToEnd /\ [][Next]_vars

(***************************************************************************)
(* The script of create_presentation: its 48 constructor calls, in order,   *)
(* with the literal arguments of the source.  A character outside ASCII is  *)
(* written <U+hhhh>, its code point.                                        *)
(***************************************************************************)
\* add_title_slide, lines 215-219
WorkshopCall01 ==
    [kind |-> "title", title |-> "How to Write Effective KPIs and SMART Objectives",
     subtitle |-> "A 2-Day Workshop for Technology Middle Managers"]

\* add_content_slide, lines 222-234
WorkshopCall02 ==
    [kind |-> "content", title |-> "Workshop Overview",
     items |-> <<"Day 1: Understanding SMART Objectives & Goal Setting",
                "<U+2022> What are objectives and why they matter",
                "<U+2022> Introduction to the SMART framework",
                "<U+2022> Writing effective function/team objectives",
                "<U+2022> Practical exercises and examples",
                "",
                "Day 2: KPIs & Cascading to Your Team",
                "<U+2022> Understanding KPIs and their importance",
                "<U+2022> Creating meaningful KPIs from objectives",
                "<U+2022> Cascading objectives and KPIs to team members",
                "<U+2022> Real-world technology sector examples">>]

\* add_content_slide, lines 237-246
WorkshopCall03 ==
    [kind |-> "content", title |-> "Learning Outcomes",
     items |-> <<"By the end of this workshop, you will be able to:",
                "",
                "<U+2713> Understand the difference between objectives and KPIs",
                "<U+2713> Write SMART objectives for your function/team",
                "<U+2713> Create measurable KPIs that drive performance",
                "<U+2713> Cascade organizational objectives to your team",
                "<U+2713> Align individual KPIs with team and company goals",
                "<U+2713> Monitor and track performance effectively">>]

\* add_title_slide, lines 249-249
WorkshopCall04 ==
    [kind |-> "title", title |-> "DAY 1",
     subtitle |-> "Understanding SMART Objectives & Goal Setting"]

\* add_content_slide, lines 252-262
WorkshopCall05 ==
    [kind |-> "content", title |-> "What Are Objectives?",
     items |-> <<"Definition:",
                "Objectives are specific, measurable goals that define what you want to achieve",
                "",
                "Why Objectives Matter:",
                "<U+2022> Provide clear direction and focus",
                "<U+2022> Align team efforts with organizational strategy",
                "<U+2022> Enable performance measurement",
                "<U+2022> Motivate and engage team members",
                "<U+2022> Facilitate resource allocation and prioritization">>]

\* A faulty WorkshopCall06: a comma is missing between the last two cells of the
\* first row, which makes them one cell.
WorkshopCall06MissingComma ==
    [kind |-> "table", title |-> "Objectives vs KPIs: Understanding the Difference",
     headers |-> <<"Aspect",
                  "Objectives",
                  "KPIs">>,
     rows |-> <<<<"Definition",
                  "What you want to achieveHow you measure achievement">>,
               <<"Nature",
                  "Qualitative or Quantitative",
                  "Always Quantitative">>,
               <<"Purpose",
                  "Set direction and goals",
                  "Track progress and performance">>,
               <<"Example",
                  "Improve customer satisfaction",
                  "NPS score of 8.5 or higher">>,
               <<"Time Frame",
                  "Medium to long-term",
                  "Measured regularly (daily/weekly/monthly)">>,
               <<"Focus",
                  "Outcome-oriented",
                  "Metric-oriented">>>>]

\* add_table_slide, lines 265-275
WorkshopCall06 ==
    [kind |-> "table", title |-> "Objectives vs KPIs: Understanding the Difference",
     headers |-> <<"Aspect",
                  "Objectives",
                  "KPIs">>,
     rows |-> <<<<"Definition",
                  "What you want to achieve",
                  "How you measure achievement">>,
               <<"Nature",
                  "Qualitative or Quantitative",
                  "Always Quantitative">>,
               <<"Purpose",
                  "Set direction and goals",
                  "Track progress and performance">>,
               <<"Example",
                  "Improve customer satisfaction",
                  "NPS score of 8.5 or higher">>,
               <<"Time Frame",
                  "Medium to long-term",
                  "Measured regularly (daily/weekly/monthly)">>,
               <<"Focus",
                  "Outcome-oriented",
                  "Metric-oriented">>>>]

\* add_title_slide, lines 278-278
WorkshopCall07 ==
    [kind |-> "title", title |-> "The SMART Framework",
     subtitle |-> "A Proven Method for Effective Objectives"]

\* add_two_column_slide, lines 281-306
WorkshopCall08 ==
    [kind |-> "two_column", title |-> "S - Specific",
     left |-> <<"What does SPECIFIC mean?",
               "<U+2022> Clearly defined and unambiguous",
               "<U+2022> Answers: Who, What, Where, When, Why",
               "<U+2022> Leaves no room for misinterpretation",
               "<U+2022> Focuses on a single objective",
               "",
               "Why it matters:",
               "<U+2022> Provides clarity and direction",
               "<U+2022> Reduces confusion",
               "<U+2022> Easier to communicate to team">>,
     right |-> <<"<U+274C> Poor Example:",
                "'Improve our software quality'",
                "",
                "<U+2705> SMART Example:",
                "'Reduce critical bugs in production by implementing automated testing for all new features in our mobile application'",
                "",
                "Notice the difference:",
                "<U+2022> What: Reduce critical bugs",
                "<U+2022> How: Automated testing",
                "<U+2022> Where: Mobile application">>]

\* add_two_column_slide, lines 309-335
WorkshopCall09 ==
    [kind |-> "two_column", title |-> "M - Measurable",
     left |-> <<"What does MEASURABLE mean?",
               "<U+2022> Can be quantified or qualified",
               "<U+2022> Has clear criteria for success",
               "<U+2022> Progress can be tracked",
               "<U+2022> Includes specific numbers/percentages",
               "",
               "Why it matters:",
               "<U+2022> Enables progress tracking",
               "<U+2022> Provides objective evaluation",
               "<U+2022> Motivates through visible progress">>,
     right |-> <<"<U+274C> Poor Example:",
                "'Make our development process faster'",
                "",
                "<U+2705> SMART Example:",
                "'Reduce average sprint cycle time from 3 weeks to 2 weeks by Q2 2024'",
                "",
                "Measurement criteria:",
                "<U+2022> Baseline: 3 weeks",
                "<U+2022> Target: 2 weeks",
                "<U+2022> Metric: Sprint cycle time",
                "<U+2022> Improvement: 33% reduction">>]

\* add_two_column_slide, lines 338-365
WorkshopCall10 ==
    [kind |-> "two_column", title |-> "A - Achievable",
     left |-> <<"What does ACHIEVABLE mean?",
               "<U+2022> Realistic given resources",
               "<U+2022> Challenging but attainable",
               "<U+2022> Within your control/influence",
               "<U+2022> Considers constraints and risks",
               "",
               "Why it matters:",
               "<U+2022> Maintains team motivation",
               "<U+2022> Prevents burnout",
               "<U+2022> Builds credibility",
               "<U+2022> Ensures sustainable progress">>,
     right |-> <<"<U+274C> Poor Example:",
                "'Achieve 100% code coverage across all 50 legacy applications in 1 month'",
                "",
                "<U+2705> SMART Example:",
                "'Achieve 80% code coverage on 5 priority applications within 6 months by allocating 20% of sprint capacity'",
                "",
                "Why it's achievable:",
                "<U+2022> Realistic scope (5 apps, not 50)",
                "<U+2022> Reasonable timeline (6 months)",
                "<U+2022> Resource allocation defined (20%)",
                "<U+2022> Practical target (80% vs 100%)">>]

\* add_two_column_slide, lines 368-396
WorkshopCall11 ==
    [kind |-> "two_column", title |-> "R - Relevant",
     left |-> <<"What does RELEVANT mean?",
               "<U+2022> Aligns with broader goals",
               "<U+2022> Supports organizational strategy",
               "<U+2022> Matters to stakeholders",
               "<U+2022> Worth the time and effort",
               "",
               "Why it matters:",
               "<U+2022> Ensures strategic alignment",
               "<U+2022> Maximizes impact",
               "<U+2022> Justifies resource investment",
               "<U+2022> Maintains focus on priorities">>,
     right |-> <<"Context: Company goal is to improve customer retention by 25%",
                "",
                "<U+274C> Poor Example (Not Relevant):",
                "'Migrate all internal tools to newest framework version'",
                "",
                "<U+2705> SMART Example (Relevant):",
                "'Reduce customer-reported app crashes by 60% to improve retention and user satisfaction'",
                "",
                "Why it's relevant:",
                "<U+2022> Directly impacts customer experience",
                "<U+2022> Supports retention goal",
                "<U+2022> Addresses customer pain point">>]

\* add_two_column_slide, lines 399-426
WorkshopCall12 ==
    [kind |-> "two_column", title |-> "T - Time-Bound",
     left |-> <<"What does TIME-BOUND mean?",
               "<U+2022> Has a clear deadline",
               "<U+2022> Includes milestones",
               "<U+2022> Creates urgency",
               "<U+2022> Enables progress tracking",
               "",
               "Why it matters:",
               "<U+2022> Prevents procrastination",
               "<U+2022> Enables planning and scheduling",
               "<U+2022> Creates accountability",
               "<U+2022> Allows for course correction">>,
     right |-> <<"<U+274C> Poor Example:",
                "'Implement new CI/CD pipeline eventually'",
                "",
                "<U+2705> SMART Example:",
                "'Implement CI/CD pipeline for 3 core services by end of Q3 2024, with Phase 1 (design) by July 15 and Phase 2 (implementation) by Sept 15'",
                "",
                "Timeline breakdown:",
                "<U+2022> Phase 1 deadline: July 15, 2024",
                "<U+2022> Phase 2 deadline: Sept 15, 2024",
                "<U+2022> Final completion: Q3 2024",
                "<U+2022> Scope: 3 core services">>]

\* add_table_slide, lines 429-453
WorkshopCall13 ==
    [kind |-> "table", title |-> "Before & After: SMART Transformation",
     headers |-> <<"Before (Weak)",
                  "After (SMART)",
                  "What Changed">>,
     rows |-> <<<<"Improve team skills",
                  "Complete cloud certification for 8 team members by Q4 2024 with 90% pass rate",
                  "Added specific number, metric, and deadline">>,
               <<"Better customer support",
                  "Reduce average ticket resolution time from 48h to 24h by implementing new ticketing system by July 2024",
                  "Quantified improvement, added method and timeline">>,
               <<"Modernize infrastructure",
                  "Migrate 75% of on-premise workloads to cloud by Dec 2024, starting with 3 pilot applications in Q2",
                  "Specified percentage, deadline, and phased approach">>,
               <<"Increase productivity",
                  "Reduce manual deployment time by 70% (from 4h to 1.2h) by automating release process by Q3 2024",
                  "Quantified baseline, target, and method">>>>]

\* add_content_slide, lines 456-471
WorkshopCall14 ==
    [kind |-> "content", title |-> "Writing Your Function/Team Objectives",
     items |-> <<"Step 1: Understand organizational strategy and goals",
                "<U+2022> Review company OKRs, strategic plans, and priorities",
                "<U+2022> Identify how your function contributes",
                "",
                "Step 2: Identify your function's key responsibilities",
                "<U+2022> What are you accountable for?",
                "<U+2022> What value does your team provide?",
                "",
                "Step 3: Define 3-5 key objectives (don't overcommit!)",
                "<U+2022> Focus on high-impact areas",
                "<U+2022> Apply SMART criteria to each",
                "",
                "Step 4: Validate with stakeholders",
                "<U+2022> Get buy-in from leadership and peers">>]

\* add_table_slide, lines 474-502
WorkshopCall15 ==
    [kind |-> "table", title |-> "Sample Objectives by Technology Function",
     headers |-> <<"Function",
                  "Sample SMART Objective">>,
     rows |-> <<<<"Software Development",
                  "Increase deployment frequency from monthly to weekly by implementing automated CI/CD pipeline by Q3 2024">>,
               <<"Infrastructure & DevOps",
                  "Achieve 99.9% system uptime by implementing redundancy and automated failover for all critical services by Q4 2024">>,
               <<"Quality Assurance",
                  "Reduce production defects by 50% (from 20 to 10 per release) by implementing shift-left testing by Q2 2024">>,
               <<"IT Security",
                  "Complete security compliance audit with zero critical findings by implementing automated vulnerability scanning by Dec 2024">>,
               <<"Product Management",
                  "Increase feature adoption rate from 35% to 60% by implementing user feedback loop and A/B testing by Q3 2024">>,
               <<"Data Engineering",
                  "Reduce data processing latency from 24h to 2h by optimizing ETL pipelines for 5 core data sources by Q4 2024">>>>]

\* add_table_slide, lines 505-539
WorkshopCall16 ==
    [kind |-> "table", title |-> "Common Pitfalls to Avoid",
     headers |-> <<"Pitfall",
                  "Why It's a Problem",
                  "How to Fix It">>,
     rows |-> <<<<"Too many objectives",
                  "Dilutes focus and resources",
                  "Limit to 3-5 key objectives">>,
               <<"Vague language",
                  "Open to interpretation",
                  "Use specific, measurable terms">>,
               <<"No baseline data",
                  "Can't measure improvement",
                  "Establish current state first">>,
               <<"Unrealistic targets",
                  "Demotivates team",
                  "Set challenging but achievable goals">>,
               <<"Activity-focused",
                  "Measures effort, not outcome",
                  "Focus on results and impact">>,
               <<"Missing stakeholder buy-in",
                  "Misalignment and conflicts",
                  "Validate with leadership early">>>>]

\* add_content_slide, lines 542-558
WorkshopCall17 ==
    [kind |-> "content", title |-> "<U+1F3AF> Day 1 Exercise: Write Your Own Objectives",
     items |-> <<"Activity (45 minutes):",
                "",
                "1. Review your function's current responsibilities (10 min)",
                "   <U+2022> List your team's key accountabilities",
                "",
                "2. Draft 3-5 SMART objectives for your function (25 min)",
                "   <U+2022> Use the SMART framework",
                "   <U+2022> Consider organizational alignment",
                "",
                "3. Peer review in pairs (10 min)",
                "   <U+2022> Exchange with a colleague",
                "   <U+2022> Check each criterion: S-M-A-R-T",
                "   <U+2022> Provide constructive feedback",
                "",
                "We'll share examples after the break!">>]

\* add_content_slide, lines 561-572
WorkshopCall18 ==
    [kind |-> "content", title |-> "Day 1 Summary",
     items |-> <<"Key Takeaways:",
                "",
                "<U+2713> Objectives define WHAT you want to achieve",
                "<U+2713> SMART framework ensures objectives are effective:",
                "  <U+2022> Specific, Measurable, Achievable, Relevant, Time-bound",
                "<U+2713> Good objectives provide clarity and direction",
                "<U+2713> Function objectives must align with organizational strategy",
                "<U+2713> Quality over quantity - focus on 3-5 key objectives",
                "",
                "Tomorrow: We'll learn how to create KPIs and cascade them to your team members!">>]

\* add_title_slide, lines 575-575
WorkshopCall19 ==
    [kind |-> "title", title |-> "DAY 2",
     subtitle |-> "KPIs & Cascading to Your Team"]

\* add_content_slide, lines 578-590
WorkshopCall20 ==
    [kind |-> "content", title |-> "What Are Key Performance Indicators (KPIs)?",
     items |-> <<"Definition:",
                "KPIs are quantifiable metrics that measure progress toward objectives",
                "",
                "Characteristics of Good KPIs:",
                "<U+2022> Quantifiable - expressed in numbers or percentages",
                "<U+2022> Actionable - can influence through your actions",
                "<U+2022> Relevant - directly related to objectives",
                "<U+2022> Timely - measured at appropriate intervals",
                "<U+2022> Accurate - based on reliable data",
                "",
                "Remember: KPIs measure HOW you track achievement of objectives">>]

\* add_table_slide, lines 593-627
WorkshopCall21 ==
    [kind |-> "table", title |-> "Types of KPIs in Technology",
     headers |-> <<"KPI Type",
                  "What It Measures",
                  "Example">>,
     rows |-> <<<<"Input KPIs",
                  "Resources consumed",
                  "Hours spent on development, Budget allocated">>,
               <<"Process KPIs",
                  "Efficiency of activities",
                  "Code review turnaround time, Sprint velocity">>,
               <<"Output KPIs",
                  "Deliverables produced",
                  "Features deployed, Stories completed">>,
               <<"Outcome KPIs",
                  "Results achieved",
                  "System uptime %, Customer satisfaction score">>,
               <<"Leading KPIs",
                  "Predict future performance",
                  "Test coverage %, Number of code commits">>,
               <<"Lagging KPIs",
                  "Past performance",
                  "Production incidents, Customer churn rate">>>>]

\* add_content_slide, lines 630-646
WorkshopCall22 ==
    [kind |-> "content", title |-> "How to Create KPIs from Objectives",
     items |-> <<"Step 1: Start with your SMART objective",
                "<U+2022> The objective already contains measurable elements",
                "",
                "Step 2: Identify what needs to be measured",
                "<U+2022> What indicates progress?",
                "<U+2022> What shows success?",
                "",
                "Step 3: Define the metric formula",
                "<U+2022> How will you calculate it?",
                "<U+2022> What data sources will you use?",
                "",
                "Step 4: Set target values and thresholds",
                "<U+2022> What's the goal? (Target)",
                "<U+2022> What's acceptable? (Threshold)",
                "<U+2022> What's excellent? (Stretch goal)">>]

\* add_table_slide, lines 649-673
WorkshopCall23 ==
    [kind |-> "table", title |-> "From Objectives to KPIs: Examples",
     headers |-> <<"SMART Objective",
                  "Related KPIs",
                  "Target">>,
     rows |-> <<<<"Reduce production bugs by 50% by Q4 2024",
                  "<U+2022> # of critical bugs per release\n<U+2022> Bug resolution time (hours)\n<U+2022> Bug escape rate (%)",
                  "<U+2022> <U+2264> 5 critical bugs\n<U+2022> < 24 hours\n<U+2022> < 5%">>,
               <<"Increase deployment frequency from monthly to weekly by Q3",
                  "<U+2022> Deployments per week\n<U+2022> Deployment success rate (%)\n<U+2022> Mean time to deploy (min)",
                  "<U+2022> 4 per week\n<U+2022> <U+2265> 95%\n<U+2022> < 30 min">>,
               <<"Improve system uptime to 99.9% by implementing redundancy by Q4",
                  "<U+2022> System uptime (%)\n<U+2022> Mean time between failures (hours)\n<U+2022> Mean time to recovery (min)",
                  "<U+2022> <U+2265> 99.9%\n<U+2022> > 720 hours\n<U+2022> < 15 min">>,
               <<"Achieve 80% test automation coverage for critical features by Q2",
                  "<U+2022> Test automation coverage (%)\n<U+2022> Test execution time (min)\n<U+2022> Tests passing rate (%)",
                  "<U+2022> <U+2265> 80%\n<U+2022> < 20 min\n<U+2022> <U+2265> 98%">>>>]

\* add_two_column_slide, lines 676-709
WorkshopCall24 ==
    [kind |-> "two_column", title |-> "Characteristics of Effective KPIs",
     left |-> <<"Good KPIs Are:",
               "",
               "<U+2713> Clearly Defined",
               "<U+2022> No ambiguity in calculation",
               "<U+2022> Everyone understands the metric",
               "",
               "<U+2713> Easy to Measure",
               "<U+2022> Data is readily available",
               "<U+2022> Can be tracked regularly",
               "",
               "<U+2713> Actionable",
               "<U+2022> Team can influence the outcome",
               "<U+2022> Clear actions drive improvement">>,
     right |-> <<"<U+2713> Relevant",
                "<U+2022> Directly tied to objectives",
                "<U+2022> Matters to stakeholders",
                "",
                "<U+2713> Balanced",
                "<U+2022> Mix of leading & lagging indicators",
                "<U+2022> Covers quality, speed, and efficiency",
                "",
                "<U+2713> Limited in Number",
                "<U+2022> 3-5 KPIs per objective",
                "<U+2022> Focus on what matters most",
                "",
                "<U+2713> Regularly Reviewed",
                "<U+2022> Tracked at appropriate frequency",
                "<U+2022> Used for decision-making">>]

\* add_chart_slide, lines 712-719
WorkshopCall25 ==
    [kind |-> "chart", title |-> "KPI Tracking Example: Deployment Frequency",
     chart_type |-> "LINE",
     chart_data_dict |->
        [categories |-> <<"Q1",
                          "Q2",
                          "Q3",
                          "Q4">>,
         series |-> <<[name |-> "Deployment Frequency", values |-> <<4, 8, 12, 16>>],
                      [name |-> "Target", values |-> <<16, 16, 16, 16>>]>>]]

\* add_title_slide, lines 722-722
WorkshopCall26 ==
    [kind |-> "title", title |-> "Cascading Objectives & KPIs",
     subtitle |-> "From Organization to Individual"]

\* add_content_slide, lines 725-736
WorkshopCall27 ==
    [kind |-> "content", title |-> "Why Cascade Objectives and KPIs?",
     items |-> <<"Benefits of Cascading:",
                "",
                "<U+2713> Alignment - Everyone works toward common goals",
                "<U+2713> Clarity - Each person understands their contribution",
                "<U+2713> Accountability - Clear ownership at every level",
                "<U+2713> Motivation - People see how their work matters",
                "<U+2713> Transparency - Visible connection from top to bottom",
                "<U+2713> Efficiency - Eliminates conflicting priorities",
                "",
                "The Goal: Create a 'line of sight' from company strategy to daily tasks">>]

\* add_table_slide, lines 739-767
WorkshopCall28 ==
    [kind |-> "table", title |-> "The Cascading Framework: Levels of Objectives",
     headers |-> <<"Level",
                  "Scope",
                  "Example",
                  "Owner">>,
     rows |-> <<<<"Organizational",
                  "Company-wide strategic goals",
                  "Become market leader in cloud solutions",
                  "CEO / Executive Team">>,
               <<"Departmental",
                  "Division or department goals",
                  "Achieve 99.9% platform reliability",
                  "CTO / VP Engineering">>,
               <<"Function/Team",
                  "Team or function-specific goals",
                  "Reduce infrastructure incidents by 60%",
                  "Engineering Manager">>,
               <<"Individual",
                  "Personal performance goals",
                  "Implement monitoring for 10 critical services",
                  "DevOps Engineer">>>>]

\* add_content_slide, lines 770-790
WorkshopCall29 ==
    [kind |-> "content", title |-> "The 5-Step Cascading Process",
     items |-> <<"Step 1: Understand Upper-Level Objectives",
                "<U+2022> Review organizational and departmental objectives",
                "<U+2022> Identify how your function contributes",
                "",
                "Step 2: Define Your Function/Team Objectives",
                "<U+2022> What must your team achieve to support upper objectives?",
                "<U+2022> Apply SMART framework",
                "",
                "Step 3: Break Down into Individual Objectives",
                "<U+2022> What should each team member accomplish?",
                "<U+2022> Ensure fair distribution and capabilities match",
                "",
                "Step 4: Create Corresponding KPIs at Each Level",
                "<U+2022> Team KPIs roll up to function objectives",
                "<U+2022> Individual KPIs roll up to team objectives",
                "",
                "Step 5: Review and Align",
                "<U+2022> Validate with team members",
                "<U+2022> Ensure understanding and buy-in">>]

\* add_table_slide, lines 793-817
WorkshopCall30 ==
    [kind |-> "table", title |-> "Cascading Example: From Company to Individual",
     headers |-> <<"Level",
                  "Objective",
                  "KPI">>,
     rows |-> <<<<"Company",
                  "Increase customer retention by 25% by end of year",
                  "Customer retention rate <U+2265> 85%">>,
               <<"Department (Engineering)",
                  "Improve platform stability and performance by Q4",
                  "System uptime <U+2265> 99.9%\nP95 response time < 200ms">>,
               <<"Team (DevOps)",
                  "Reduce production incidents by 60% by Q3 2024",
                  "Incidents per month <U+2264> 4\nMTTR < 30 minutes">>,
               <<"Individual (DevOps Engineer)",
                  "Implement monitoring and alerting for 10 critical services by July 2024",
                  "Services monitored: 10/10\nAlert response time < 5 min\nFalse positive rate < 5%">>>>]

\* add_content_slide, lines 820-839
WorkshopCall31 ==
    [kind |-> "content", title |-> "Creating Individual Team Member KPIs",
     items |-> <<"Principles for Individual KPIs:",
                "",
                "<U+2022> Based on role and responsibilities",
                "  <U+2192> Software Engineer: Code quality, delivery, collaboration",
                "  <U+2192> QA Engineer: Test coverage, defect detection, automation",
                "",
                "<U+2022> Aligned with team objectives",
                "  <U+2192> Individual KPIs contribute to team KPIs",
                "",
                "<U+2022> Within individual's control",
                "  <U+2192> Can be influenced by their actions",
                "",
                "<U+2022> Balanced scorecard approach",
                "  <U+2192> Mix of quantitative and qualitative metrics",
                "  <U+2192> Include both results and behaviors",
                "",
                "<U+2022> Developed collaboratively",
                "  <U+2192> Discuss with team member, don't impose">>]

\* add_table_slide, lines 842-871
WorkshopCall32 ==
    [kind |-> "table", title |-> "Individual KPI Examples by Role",
     headers |-> <<"Role",
                  "Sample KPIs",
                  "Target">>,
     rows |-> <<<<"Software Engineer",
                  "<U+2022> Story points delivered per sprint\n<U+2022> Code review turnaround time\n<U+2022> Code quality score (SonarQube)",
                  "<U+2022> 20-25 points\n<U+2022> < 24 hours\n<U+2022> A rating">>,
               <<"QA Engineer",
                  "<U+2022> Test cases automated per sprint\n<U+2022> Defect detection rate\n<U+2022> Test execution time reduction",
                  "<U+2022> 15-20 cases\n<U+2022> <U+2265> 85%\n<U+2022> 30% reduction">>,
               <<"DevOps Engineer",
                  "<U+2022> Pipeline reliability (%)\n<U+2022> Infrastructure as Code coverage\n<U+2022> Deployment automation %",
                  "<U+2022> <U+2265> 98%\n<U+2022> <U+2265> 80%\n<U+2022> <U+2265> 90%">>,
               <<"Tech Lead",
                  "<U+2022> Team velocity improvement\n<U+2022> Technical debt reduction\n<U+2022> Knowledge sharing sessions led",
                  "<U+2022> 15% increase\n<U+2022> 20% reduction\n<U+2022> 2 per month">>,
               <<"Product Owner",
                  "<U+2022> Feature adoption rate\n<U+2022> Sprint goal achievement\n<U+2022> Stakeholder satisfaction score",
                  "<U+2022> <U+2265> 60%\n<U+2022> <U+2265> 90%\n<U+2022> <U+2265> 8/10">>>>]

\* add_content_slide, lines 874-888
WorkshopCall33 ==
    [kind |-> "content", title |-> "Ensuring Alignment: The Vertical Check",
     items |-> <<"Ask These Questions:",
                "",
                "Bottom-Up (Individual <U+2192> Company):",
                "<U+2022> 'If I achieve my KPIs, does it help my team achieve theirs?'",
                "<U+2022> 'If our team achieves our KPIs, does it help the department?'",
                "<U+2022> 'Does the department's success support company objectives?'",
                "",
                "Top-Down (Company <U+2192> Individual):",
                "<U+2022> 'How does company strategy translate to department goals?'",
                "<U+2022> 'What must my team do to support department objectives?'",
                "<U+2022> 'What should each individual contribute?'",
                "",
                "If the answer to any question is unclear, revisit the cascade!">>]

\* add_table_slide, lines 891-925
WorkshopCall34 ==
    [kind |-> "table", title |-> "Common Cascading Mistakes to Avoid",
     headers |-> <<"Mistake",
                  "Impact",
                  "Solution">>,
     rows |-> <<<<"Cascading too many objectives",
                  "Team overwhelmed, diluted focus",
                  "Limit to 3-5 objectives per level">>,
               <<"Lost in translation",
                  "Individual KPIs don't support team goals",
                  "Verify alignment at each level">>,
               <<"One-way communication",
                  "Lack of buy-in, unrealistic targets",
                  "Collaborate with team on objectives">>,
               <<"Conflicting KPIs",
                  "Competing priorities, confusion",
                  "Review for contradictions before finalizing">>,
               <<"No visibility",
                  "Team doesn't see the big picture",
                  "Share company and department objectives">>,
               <<"Set and forget",
                  "Objectives become irrelevant",
                  "Review and adjust quarterly">>>>]

\* add_content_slide, lines 928-946
WorkshopCall35 ==
    [kind |-> "content", title |-> "Tracking and Monitoring KPIs",
     items |-> <<"Best Practices:",
                "",
                "<U+2022> Establish measurement cadence",
                "  <U+2192> Daily: Operational metrics (uptime, incidents)",
                "  <U+2192> Weekly: Team performance (velocity, completed stories)",
                "  <U+2192> Monthly: Strategic metrics (customer satisfaction, retention)",
                "",
                "<U+2022> Use dashboards and visualization",
                "  <U+2192> Make KPIs visible to the team",
                "  <U+2192> Use tools like Jira, Grafana, Tableau",
                "",
                "<U+2022> Regular review meetings",
                "  <U+2192> Weekly team syncs, Monthly business reviews",
                "",
                "<U+2022> Take action on insights",
                "  <U+2192> KPIs should drive decisions, not just report status",
                "  <U+2192> If trending wrong direction, investigate and adjust">>]

\* add_content_slide, lines 949-967
WorkshopCall36 ==
    [kind |-> "content", title |-> "Regular Reviews and Adjustments",
     items |-> <<"Quarterly Review Process:",
                "",
                "1. Review actual performance vs. targets",
                "   <U+2022> What went well? What didn't?",
                "",
                "2. Identify obstacles and enablers",
                "   <U+2022> What helped or hindered progress?",
                "",
                "3. Celebrate achievements",
                "   <U+2022> Recognize team and individual wins",
                "",
                "4. Adjust objectives and KPIs if needed",
                "   <U+2022> Business context changes - objectives should too",
                "   <U+2022> But don't change too frequently (stability matters)",
                "",
                "5. Plan for next quarter",
                "   <U+2022> Set new targets, identify needed support">>]

\* add_content_slide, lines 970-990
WorkshopCall37 ==
    [kind |-> "content", title |-> "Communicating Objectives and KPIs to Your Team",
     items |-> <<"Effective Communication Strategies:",
                "",
                "<U+2713> Explain the 'Why'",
                "  <U+2022> Connect objectives to company strategy and purpose",
                "",
                "<U+2713> Be Transparent",
                "  <U+2022> Share both successes and challenges",
                "",
                "<U+2713> Encourage Questions",
                "  <U+2022> Create safe space for clarification and feedback",
                "",
                "<U+2713> Make it Visual",
                "  <U+2022> Use dashboards, charts, and progress indicators",
                "",
                "<U+2713> Regular Updates",
                "  <U+2022> Don't wait for formal reviews - communicate continuously",
                "",
                "<U+2713> Two-Way Dialogue",
                "  <U+2022> Listen to team input on feasibility and approach">>]

\* add_content_slide, lines 993-1009
WorkshopCall38 ==
    [kind |-> "content", title |-> "<U+1F3AF> Day 2 Exercise: Cascade Your Objectives",
     items |-> <<"Activity (60 minutes):",
                "",
                "Part 1: Create Team KPIs (20 min)",
                "<U+2022> Take one of your function objectives from Day 1",
                "<U+2022> Define 3-5 KPIs that measure progress",
                "<U+2022> Specify targets and measurement frequency",
                "",
                "Part 2: Cascade to Individual (25 min)",
                "<U+2022> Select 2 team members (or use fictional examples)",
                "<U+2022> Define individual objectives that support team objective",
                "<U+2022> Create 3-4 individual KPIs for each",
                "",
                "Part 3: Alignment Check (15 min)",
                "<U+2022> Verify individual KPIs <U+2192> Team KPIs <U+2192> Function Objective",
                "<U+2022> Share with a peer for feedback">>]

\* add_table_slide, lines 1012-1046
WorkshopCall39 ==
    [kind |-> "table", title |-> "Complete Example: E-Commerce Platform Team",
     headers |-> <<"Level",
                  "Objective/KPI",
                  "Owner">>,
     rows |-> <<<<"Company Objective",
                  "Increase annual revenue by 30% through improved digital experience",
                  "CEO">>,
               <<"Engineering Dept KPI",
                  "Improve platform performance: Page load time < 2 sec, 99.95% uptime",
                  "VP Engineering">>,
               <<"Platform Team Objective",
                  "Optimize checkout process to reduce cart abandonment by 25% by Q3",
                  "Engineering Manager">>,
               <<"Team KPIs",
                  "<U+2022> Cart abandonment rate < 15%\n<U+2022> Checkout completion time < 45 sec\n<U+2022> Payment success rate > 99%",
                  "Platform Team">>,
               <<"Individual (Frontend Dev)",
                  "Implement one-click checkout for returning users by July 2024",
                  "Sarah Chen">>,
               <<"Individual KPIs",
                  "<U+2022> Feature completion: 100% by July 31\n<U+2022> Page load time: < 1.5 sec\n<U+2022> Zero critical bugs in production",
                  "Sarah Chen">>>>]

\* add_content_slide, lines 1049-1063
WorkshopCall40 ==
    [kind |-> "content", title |-> "Tools and Templates",
     items |-> <<"Recommended Tools for KPI Tracking:",
                "",
                "<U+2022> Project Management: Jira, Azure DevOps, Monday.com",
                "<U+2022> Dashboards: Grafana, Tableau, Power BI, Klipfolio",
                "<U+2022> OKR Software: Weekdone, Perdoo, Gtmhub, WorkBoard",
                "<U+2022> Custom: Google Sheets, Excel with regular updates",
                "",
                "Templates to Use:",
                "<U+2022> Objective Setting Template (SMART format)",
                "<U+2022> KPI Definition Sheet (metric, formula, target, frequency)",
                "<U+2022> Cascading Matrix (showing alignment across levels)",
                "<U+2022> Progress Tracker (weekly/monthly updates)",
                "<U+2022> Review Meeting Agenda">>]

\* add_table_slide, lines 1066-1076
WorkshopCall41 ==
    [kind |-> "table", title |-> "Template: SMART Objective Definition",
     headers |-> <<"Component",
                  "Your Response">>,
     rows |-> <<<<"Specific: What exactly will you achieve?",
                  "">>,
               <<"Measurable: How will you measure success?",
                  "">>,
               <<"Achievable: Why is this realistic?",
                  "">>,
               <<"Relevant: How does this align with broader goals?",
                  "">>,
               <<"Time-bound: What is the deadline/timeline?",
                  "">>,
               <<"Complete SMART Objective:",
                  "">>>>]

\* add_table_slide, lines 1079-1092
WorkshopCall42 ==
    [kind |-> "table", title |-> "Template: KPI Definition Sheet",
     headers |-> <<"Element",
                  "Description">>,
     rows |-> <<<<"KPI Name",
                  "Clear, descriptive name">>,
               <<"Related Objective",
                  "Which objective does this measure?">>,
               <<"Formula/Calculation",
                  "How is it calculated?">>,
               <<"Data Source",
                  "Where does the data come from?">>,
               <<"Target Value",
                  "What is the goal?">>,
               <<"Threshold (Acceptable)",
                  "What is the minimum acceptable?">>,
               <<"Measurement Frequency",
                  "Daily / Weekly / Monthly / Quarterly">>,
               <<"Owner",
                  "Who is responsible for tracking?">>,
               <<"Last Updated",
                  "Date of last review">>>>]

\* add_content_slide, lines 1095-1111
WorkshopCall43 ==
    [kind |-> "content", title |-> "Your Action Plan: Next Steps",
     items |-> <<"Week 1-2: Foundation",
                "<U+2610> Review organizational strategy and departmental objectives",
                "<U+2610> Finalize your function's 3-5 SMART objectives",
                "<U+2610> Get approval from your manager",
                "",
                "Week 3-4: KPIs and Cascading",
                "<U+2610> Define 3-5 KPIs for each function objective",
                "<U+2610> Set up tracking mechanisms and dashboards",
                "<U+2610> Begin cascading: Meet 1-on-1 with each team member",
                "<U+2610> Co-create individual objectives and KPIs",
                "",
                "Ongoing:",
                "<U+2610> Track KPIs at defined frequency",
                "<U+2610> Hold regular review meetings",
                "<U+2610> Adjust as needed based on business changes">>]

\* add_content_slide, lines 1114-1134
WorkshopCall44 ==
    [kind |-> "content", title |-> "Critical Success Factors",
     items |-> <<"To succeed with objectives and KPIs:",
                "",
                "1. Leadership Commitment",
                "   <U+2022> Visible support from senior management",
                "",
                "2. Clear Communication",
                "   <U+2022> Everyone understands the 'why' and 'how'",
                "",
                "3. Data Availability",
                "   <U+2022> Can actually measure what you define",
                "",
                "4. Regular Reviews",
                "   <U+2022> Make it part of your rhythm, not a one-time event",
                "",
                "5. Flexibility",
                "   <U+2022> Adjust when context changes, but maintain stability",
                "",
                "6. Recognition",
                "   <U+2022> Celebrate achievements and progress">>]

\* add_content_slide, lines 1137-1151
WorkshopCall45 ==
    [kind |-> "content", title |-> "Workshop Summary: Key Takeaways",
     items |-> <<"Day 1 - SMART Objectives:",
                "<U+2713> Objectives define what you want to achieve",
                "<U+2713> SMART framework ensures clarity and effectiveness",
                "<U+2713> Good objectives align with organizational strategy",
                "",
                "Day 2 - KPIs & Cascading:",
                "<U+2713> KPIs are quantifiable measures of objective achievement",
                "<U+2713> Different types of KPIs serve different purposes",
                "<U+2713> Cascading creates alignment from company to individual",
                "<U+2713> Regular tracking and review drives continuous improvement",
                "",
                "Remember: This is a journey, not a destination!",
                "Start small, learn, and iterate.">>]

\* add_title_slide, lines 1154-1154
WorkshopCall46 ==
    [kind |-> "title", title |-> "Questions & Discussion",
     subtitle |-> "Thank you for your participation!"]

\* add_content_slide, lines 1157-1172
WorkshopCall47 ==
    [kind |-> "content", title |-> "Additional Resources",
     items |-> <<"Recommended Reading:",
                "<U+2022> 'Measure What Matters' by John Doerr (OKRs)",
                "<U+2022> 'The Balanced Scorecard' by Kaplan & Norton",
                "<U+2022> 'High Output Management' by Andy Grove",
                "",
                "Online Resources:",
                "<U+2022> Google's Guide to OKRs: rework.withgoogle.com/guides/set-goals-with-okrs",
                "<U+2022> KPI Library: kpilibrary.com",
                "<U+2022> Atlassian Goal Setting Guide: atlassian.com/team-playbook/plays/goals-signals-measures",
                "",
                "Tools:",
                "<U+2022> Free templates available on Google Sheets",
                "<U+2022> Explore OKR software trials (Weekdone, Perdoo)",
                "<U+2022> Dashboard tools: Grafana (open source)">>]

\* add_title_slide, lines 1175-1175
WorkshopCall48 ==
    [kind |-> "title", title |-> "Stay Connected",
     subtitle |-> "Keep practicing and don't hesitate to reach out for support!"]

\* A faulty WorkshopScript: the closing title call is missing.
WorkshopScriptNoClosing ==
    <<WorkshopCall01, WorkshopCall02, WorkshopCall03, WorkshopCall04,
      WorkshopCall05, WorkshopCall06, WorkshopCall07, WorkshopCall08,
      WorkshopCall09, WorkshopCall10, WorkshopCall11, WorkshopCall12,
      WorkshopCall13, WorkshopCall14, WorkshopCall15, WorkshopCall16,
      WorkshopCall17, WorkshopCall18, WorkshopCall19, WorkshopCall20,
      WorkshopCall21, WorkshopCall22, WorkshopCall23, WorkshopCall24,
      WorkshopCall25, WorkshopCall26, WorkshopCall27, WorkshopCall28,
      WorkshopCall29, WorkshopCall30, WorkshopCall31, WorkshopCall32,
      WorkshopCall33, WorkshopCall34, WorkshopCall35, WorkshopCall36,
      WorkshopCall37, WorkshopCall38, WorkshopCall39, WorkshopCall40,
      WorkshopCall41, WorkshopCall42, WorkshopCall43, WorkshopCall44,
      WorkshopCall45, WorkshopCall46, WorkshopCall47>>

WorkshopScript ==
    <<WorkshopCall01, WorkshopCall02, WorkshopCall03, WorkshopCall04,
      WorkshopCall05, WorkshopCall06, WorkshopCall07, WorkshopCall08,
      WorkshopCall09, WorkshopCall10, WorkshopCall11, WorkshopCall12,
      WorkshopCall13, WorkshopCall14, WorkshopCall15, WorkshopCall16,
      WorkshopCall17, WorkshopCall18, WorkshopCall19, WorkshopCall20,
      WorkshopCall21, WorkshopCall22, WorkshopCall23, WorkshopCall24,
      WorkshopCall25, WorkshopCall26, WorkshopCall27, WorkshopCall28,
      WorkshopCall29, WorkshopCall30, WorkshopCall31, WorkshopCall32,
      WorkshopCall33, WorkshopCall34, WorkshopCall35, WorkshopCall36,
      WorkshopCall37, WorkshopCall38, WorkshopCall39, WorkshopCall40,
      WorkshopCall41, WorkshopCall42, WorkshopCall43, WorkshopCall44,
      WorkshopCall45, WorkshopCall46, WorkshopCall47, WorkshopCall48>>

\* The runs of the script itself.  create_presentation makes the calls one
\* after the other, so every prefix of the script is a run up to that call;
\* the prefixes are the scripts here, the whole script among them.
InitWorkshop ==
    /\ script \in {SubSeq(WorkshopScript, 1, n) : n \in 0..Len(WorkshopScript)}
    /\ Start

SpecWorkshop == InitWorkshop /\ [][Next]_vars

\* Runs in which a call is made on a deck that already holds a slide: the
\* scripts of Spec, and the title call followed by any one table call.
InitSecondCall ==
    /\ script \in SeqsUpTo(RunCalls, 0, MaxSlides)
                    \cup {<<EndToEndTitle, c>> : c \in TableCalls(MaxCols, MaxRows)}
    /\ Start

SpecSecondCall == InitSecondCall /\ [][Next]_vars

(***************************************************************************)
(* Properties.                                                             *)
(*                                                                         *)
(* Call i of the script has been made when it returned (i <= k) or raised  *)
(* (i = raised_at).  Slide i of the deck is the one call i added.          *)
(***************************************************************************)
CallMade(i) == i <= k \/ i = raised_at

\* Some row of the table call c has a length other than the header count.
RowMismatch(c) == \E r \in 1..Len(c.rows) : Len(c.rows[r]) # Len(c.headers)

\* Some series of the chart call c has a length other than the category count.
SeriesMismatch(c) ==
    \E n \in 1..Len(c.chart_data_dict.series) :
        Len(c.chart_data_dict.series[n].values) # Len(c.chart_data_dict.categories)

\* C1: the table of every table call has len(rows)+1 rows and len(headers)
\* columns, and the text of cell (0, j) is headers[j] for every column j.
C1_TableGridAndHeaders ==
    \A i \in 1..Len(slides) :
        script[i].kind = "table" =>
            LET c == script[i]
                t == slides[i].table
            IN  /\ t.num_rows = Len(c.rows) + 1
                /\ t.num_cols = Len(c.headers)
                /\ Len(t.cells) = Len(c.rows) + 1
                /\ \A r \in 1..Len(t.cells) : Len(t.cells[r]) = Len(c.headers)
                /\ \A j \in 0..(Len(c.headers) - 1) :
                       t.cells[1][j + 1].text = c.headers[j + 1]

\* A table call with two different headers and two body rows has been made.
C1_Witness ==
    /\ Len(slides) = 1
    /\ script[1].kind = "table"
    /\ Len(script[1].headers) = 2
    /\ script[1].headers[1] # script[1].headers[2]
    /\ Len(script[1].rows) = 2

\* C2: a table call with a row whose length differs from the number of
\* headers raises, and the deck holds the same slides as before the call.
C2_MismatchRaisesAndAppendsNothing ==
    \A i \in 1..Len(script) :
        (CallMade(i) /\ script[i].kind = "table" /\ RowMismatch(script[i])) =>
            /\ raised_at = i
            /\ Len(slides) = i - 1

\* C3: in the table of every table call, the cells of body row r (grid row
\* r+1) have the shaded fill if r is even and no fill if r is odd.
C3_ParityShading ==
    \A i \in 1..Len(slides) :
        script[i].kind = "table" =>
            LET c == script[i]
                t == slides[i].table
            IN  \A r \in 0..(Len(c.rows) - 1) : \A j \in 0..(t.num_cols - 1) :
                    t.cells[r + 2][j + 1].fill =
                        IF r % 2 = 0 THEN ShadeBlue ELSE NoFill

\* C4: the chart of every chart call has one series per entry of
\* chart_data_dict['series'], each of len(categories) points.
C4_SeriesAndPoints ==
    \A i \in 1..Len(slides) :
        script[i].kind = "chart" =>
            LET d == script[i].chart_data_dict
                ch == slides[i].chart
            IN  /\ ch.present
                /\ Len(ch.series) = Len(d.series)
                /\ \A n \in 1..Len(ch.series) :
                       /\ ch.series[n].name = d.series[n].name
                       /\ Len(ch.series[n].values) = Len(d.categories)

\* C5: a chart call with a series whose number of values differs from the
\* number of categories raises.
C5_SeriesMismatchRaises ==
    \A i \in 1..Len(script) :
        (CallMade(i) /\ script[i].kind = "chart" /\ SeriesMismatch(script[i])) =>
            raised_at = i

\* C6: every step leaves the slides already in the deck unchanged and in
\* place, and the number of slides never decreases.
C6_AppendOnly ==
    [][/\ Len(slides') >= Len(slides)
       /\ \A i \in 1..Len(slides) : slides'[i] = slides[i]]_vars

\* A second call has been made on a deck that held a different slide.
C6_Witness ==
    /\ Len(slides) = 2
    /\ slides[1] # slides[2]

\* The content of slide s is that of the call c.
BuiltFrom(s, c) ==
    /\ s.kind = c.kind
    /\ s.title = c.title
    /\ c.kind = "title" => s.subtitle = c.subtitle
    /\ c.kind = "content" =>
          /\ Len(s.body) = Len(c.items) + 1
          /\ \A n \in 1..Len(c.items) : s.body[n + 1] = c.items[n]
    /\ c.kind = "two_column" =>
          /\ Len(s.left) = Len(c.left) + 1
          /\ \A n \in 1..Len(c.left) : s.left[n + 1] = c.left[n]
          /\ Len(s.right) = Len(c.right) + 1
          /\ \A n \in 1..Len(c.right) : s.right[n + 1] = c.right[n]
    /\ c.kind = "table" =>
          /\ s.table.num_rows = Len(c.rows) + 1
          /\ \A j \in 1..Len(c.headers) : s.table.cells[1][j].text = c.headers[j]
    /\ c.kind = "chart" =>
          /\ s.chart.categories = c.chart_data_dict.categories
          /\ s.chart.series = c.chart_data_dict.series

\* C7: after k calls have returned, slide i is the one built from call i
\* for every i up to k, and the deck has exactly k slides unless a call
\* raised.
C7_OneSlidePerCallInOrder ==
    /\ \A i \in 1..k : i <= Len(slides) /\ BuiltFrom(slides[i], script[i])
    /\ raised_at = 0 => Len(slides) = k

\* Two calls of different kinds have returned.
C7_Witness ==
    /\ k = 2
    /\ raised_at = 0
    /\ script[1].kind # script[2].kind

\* C8: the file is written at most once, exactly once in a run that reaches
\* its end, only when every call of the script has returned, and the deck
\* is the saved one ever after.
C8_SavedOnceAfterAllSlides ==
    /\ writes <= 1
    /\ file.written <=> writes = 1
    /\ pc = "done" => writes = 1
    /\ pc = "save" => k = Len(script) /\ writes = 0
    /\ file.written =>
          /\ k = Len(script)
          /\ Len(slides) = Len(script)
          /\ file.slides = slides

\* A run of two calls has been saved.
C8_Witness ==
    /\ pc = "done"
    /\ writes = 1
    /\ Len(script) = 2
    /\ Len(file.slides) = 2

\* C9: once a constructor call has raised, the run is over at that call: no
\* later call is made and the file is not written.
C9_FailFastNoFile ==
    raised_at # 0 =>
        /\ pc = "constructor_raised"
        /\ k = raised_at - 1
        /\ Len(slides) <= raised_at
        /\ ~file.written
        /\ writes = 0
        /\ reported = -1

\* The first call of a script of two raised.
C9_Witness ==
    /\ raised_at = 1
    /\ Len(script) = 2
    /\ pc = "constructor_raised"

\* C11: add_content_slide with an empty items list returns, and its slide
\* has the given title and a body without any text.
C11_EmptyItemsEmptyBody ==
    \A i \in 1..Len(script) :
        (CallMade(i) /\ script[i].kind = "content" /\ script[i].items = <<>>) =>
            /\ i <= k
            /\ raised_at = 0
            /\ Len(slides) >= i
            /\ slides[i].kind = "content"
            /\ slides[i].title = script[i].title
            /\ \A n \in 1..Len(slides[i].body) : slides[i].body[n] = ""

\* A content call with an empty items list has been made.
C11_Witness ==
    /\ Len(slides) = 1
    /\ script[1].kind = "content"
    /\ script[1].items = <<>>

\* C12: the body of a content slide holds the items in the given order, one
\* paragraph per item, and an item that is the empty string is an empty
\* paragraph at its place.
C12_ItemsInOrderBlankKept ==
    \A i \in 1..Len(script) :
        (CallMade(i) /\ script[i].kind = "content") =>
            /\ i <= k
            /\ Len(slides[i].body) = Len(script[i].items) + 1
            /\ \A n \in 1..Len(script[i].items) :
                   slides[i].body[n + 1] = script[i].items[n]

\* A content call whose items are an empty string followed by a text has
\* been made.
C12_Witness ==
    /\ Len(slides) = 1
    /\ script[1].kind = "content"
    /\ script[1].items = <<"", "a">>
    /\ slides[1].body[2] = ""
    /\ slides[1].body[3] = "a"

\* The script is the end-to-end scenario: the title call, then the table call.
IsEndToEnd == script = <<EndToEndTitle, EndToEndTable>>

\* The deck d is the one the scenario must yield.
EndToEndDeck(d) ==
    /\ Len(d) = 2
    /\ d[1].kind = "title"
    /\ d[1].title = "Workshop"
    /\ d[2].kind = "table"
    /\ d[2].table.cells[2][1].text = "1"
    /\ d[2].table.cells[3][2].text = "4"
    /\ \A i \in 0..1 : \A j \in 0..1 :
           d[2].table.cells[(i + 1) + 1][j + 1].text = EndToEndTable.rows[i + 1][j + 1]

\* C13: the title call ("Workshop", "Subtitle") followed by the table call
\* (["A","B"], [["1","2"],["3","4"]]) yields a deck of exactly 2 slides, slide
\* 1 headed "Workshop", slide 2 with "1" in cell (1,0) and "4" in cell (2,1);
\* body row i, column j is grid cell (i+1, j).  The saved file holds that deck.
C13_EndToEnd ==
    IsEndToEnd =>
        /\ raised_at = 0
        /\ k = 2 => EndToEndDeck(slides)
        /\ pc = "done" => file.written /\ EndToEndDeck(file.slides)

\* The scenario has run to its end and the file is written.
C13_Witness ==
    /\ IsEndToEnd
    /\ pc = "done"
    /\ file.written
    /\ Len(file.slides) = 2

\* C14: at the end of a run the saved file holds the accumulated deck, and
\* the slide total main reports is the number of slides appended in the run.
C14_ReportedSlideCount ==
    /\ reported # -1 <=> pc = "done"
    /\ pc = "done" =>
          /\ file.written
          /\ file.slides = slides
          /\ reported = Len(slides)
          /\ reported = k

\* A run of two calls has ended and reported its total.
C14_Witness ==
    /\ pc = "done"
    /\ reported = 2

\* C15: every call the script of create_presentation issues keeps the data
\* model's shape: in each table call every row has as many cells as there are
\* headers, in the chart call every series has as many values as there are
\* categories; so no call of the script raises.
C15_ScriptRequestsWellFormed ==
    /\ raised_at = 0
    /\ \A i \in 1..Len(script) :
          /\ script[i].kind = "table" => ~RowMismatch(script[i])
          /\ script[i].kind = "chart" => ~SeriesMismatch(script[i])

\* The whole script has run: its 13 table calls and its chart call were made.
C15_Witness ==
    /\ script = WorkshopScript
    /\ k = Len(WorkshopScript)
    /\ Cardinality({i \in 1..k : slides[i].kind = "table"}) = 13
    /\ Cardinality({i \in 1..k : slides[i].kind = "chart"}) = 1

BlockOf(list) == <<"">> \o list

\* C17: the slide of every add_two_column_slide call has two text blocks, the
\* left one listing the items of left in order and the right one the items of
\* right in order; each block is determined by its own list: the call with any
\* other right list yields the same left block, and the call with any other
\* left list the same right block.
C17_TwoIndependentColumns ==
    \A i \in 1..Len(script) :
        (CallMade(i) /\ script[i].kind = "two_column") =>
            LET c == script[i]
                s == slides[i]
            IN  /\ i <= k
                /\ s.left = BlockOf(c.left)
                /\ s.right = BlockOf(c.right)
                /\ \A other \in SeqsUpTo(ItemTexts, 0, MaxItems) :
                      LET otherRight == add_two_column_slide(NewPresentation, c.title,
                                                             c.left, other).slides[1]
                          otherLeft == add_two_column_slide(NewPresentation, c.title,
                                                            other, c.right).slides[1]
                      IN  /\ otherRight.left = s.left
                          /\ otherLeft.right = s.right

\* A two-column call with different, non-empty lists of different lengths has
\* been made.
C17_Witness ==
    /\ k = 1
    /\ script[1].kind = "two_column"
    /\ script[1].left = <<"a", "">>
    /\ script[1].right = <<"a">>
    /\ slides[1].left = <<"", "a", "">>
    /\ slides[1].right = <<"", "a">>

\* C18, as stated: in the table of every table call every cell of the header
\* row has the header fill, and its text is bold and white, for every header
\* string, the empty string included.
C18_HeaderStyledForEveryString ==
    \A i \in 1..Len(script) :
        (CallMade(i) /\ script[i].kind = "table") =>
            \A j \in 1..Len(script[i].headers) :
                LET cell == slides[i].table.cells[1][j]
                IN  /\ cell.fill = DarkBlue
                    /\ cell.bold
                    /\ cell.font_color = White

\* C18, amended: every cell of the header row has the header fill, which no
\* body cell has, for every header string; its text is bold and white exactly
\* when the header string is not empty, an empty string leaving no run to
\* style.
C18_HeaderStyled ==
    \A i \in 1..Len(script) :
        (CallMade(i) /\ script[i].kind = "table") =>
            LET t == slides[i].table
            IN  /\ \A j \in 1..Len(script[i].headers) :
                      /\ t.cells[1][j].fill = DarkBlue
                      /\ t.cells[1][j].bold <=> script[i].headers[j] # ""
                      /\ t.cells[1][j].font_color = White <=> script[i].headers[j] # ""
                /\ \A r \in 2..t.num_rows : \A j \in 1..t.num_cols :
                      /\ t.cells[r][j].fill # DarkBlue
                      /\ ~t.cells[r][j].bold
                      /\ t.cells[r][j].font_color # White

\* A table with an empty and a non-empty header and a body row has been
\* made: both header cells are filled, only the non-empty one is bold.
C18_Witness ==
    /\ k = 1
    /\ script[1].kind = "table"
    /\ script[1].headers = <<"", "h">>
    /\ Len(script[1].rows) >= 1
    /\ slides[1].table.cells[1][1].fill = DarkBlue
    /\ ~slides[1].table.cells[1][1].bold
    /\ slides[1].table.cells[1][2].bold

\* The table call c has a row longer than its header list.
LongRow(c) == \E r \in 1..Len(c.rows) : Len(c.rows[r]) > Len(c.headers)

\* The first such row of c.
FirstLongRow(c) ==
    CHOOSE r \in 1..Len(c.rows) :
        /\ Len(c.rows[r]) > Len(c.headers)
        /\ \A q \in 1..(r - 1) : Len(c.rows[q]) <= Len(c.headers)

\* The table left behind when the cell lookup fails in the first long row of
\* c: the header row, the rows before the long one and the cells of the long
\* row that fit in the grid are rendered, every later row is untouched.
PartialTable(c) ==
    LET bad == FirstLongRow(c)
    IN  [num_rows |-> Len(c.rows) + 1, num_cols |-> Len(c.headers),
         cells |-> [r \in 1..(Len(c.rows) + 1) |-> [j \in 1..Len(c.headers) |->
            IF r = 1 THEN HeaderCell(c.headers[j])
            ELSE IF r - 1 <= bad /\ j <= Len(c.rows[r - 1])
                 THEN BodyCell(r - 2, c.rows[r - 1][j])
                 ELSE NewCell]]]

\* C19: every constructor call, whether it returns or raises, leaves the deck
\* one slide longer than before it, the earlier slides unchanged; a call
\* raises only while rendering (a table row longer than the header list), and
\* the slide it leaves is partially filled: title, headers and the cells up to
\* the failing lookup are rendered, the rest of the grid is empty.
C19_SlideAppendedBeforeContent ==
    [][(k' # k \/ raised_at' # raised_at) =>
          LET c == script[k + 1]
              new == slides'[Len(slides')]
          IN  /\ Len(slides') = Len(slides) + 1
              /\ SubSeq(slides', 1, Len(slides)) = slides
              /\ new.kind = c.kind
              /\ new.title = c.title
              /\ raised_at' # raised_at =>
                    /\ c.kind = "table"
                    /\ LongRow(c)
                    /\ new.table = PartialTable(c)]_vars

\* A table call whose first row is too long was made on a deck of one slide:
\* the deck holds two slides, and in the new one the first body row is
\* rendered up to the grid's width and the second body row is untouched.
C19_Witness ==
    /\ raised_at = 2
    /\ Len(slides) = 2
    /\ slides[1].kind = "title"
    /\ script[2].headers = <<"h">>
    /\ script[2].rows = <<<<"x", "x">>, <<"x">>>>
    /\ slides[2].table.cells[2][1].text = "x"
    /\ slides[2].table.cells[3][1] = NewCell

\* The table call c has a row shorter than its header list and none longer.
ShortRowOnly(c) ==
    /\ \E r \in 1..Len(c.rows) : Len(c.rows[r]) < Len(c.headers)
    /\ ~LongRow(c)

\* C20: a table call with a row shorter than the header list, and none
\* longer, returns with its slide appended; the grid has len(headers)
\* columns and len(rows)+1 rows, the cells of a row at columns >= len(row)
\* keep empty text and no fill, in even rows too, and every cell given in
\* any row, the later rows included, is rendered.
C20_ShortRowAccepted ==
    \A i \in 1..Len(script) :
        (CallMade(i) /\ script[i].kind = "table" /\ ShortRowOnly(script[i])) =>
            LET c == script[i]
                t == slides[i].table
            IN  /\ i <= k
                /\ raised_at = 0
                /\ t.num_cols = Len(c.headers)
                /\ t.num_rows = Len(c.rows) + 1
                /\ \A r \in 1..Len(c.rows) : \A j \in 1..Len(c.headers) :
                      IF j <= Len(c.rows[r])
                      THEN /\ t.cells[r + 1][j].text = c.rows[r][j]
                           /\ t.cells[r + 1][j].fill = RowFill(r - 1)
                      ELSE /\ t.cells[r + 1][j].text = ""
                           /\ t.cells[r + 1][j].fill = NoFill

\* A table call with two headers, a first (even) row of one cell and a full
\* second row has returned: the missing cell of the even row is unshaded next
\* to a shaded one, and the second row is rendered.
C20_Witness ==
    /\ k = 1
    /\ script[1].kind = "table"
    /\ Len(script[1].headers) = 2
    /\ script[1].rows = <<<<"x">>, <<"x", "x">>>>
    /\ slides[1].table.cells[2][1].fill = ShadeBlue
    /\ slides[1].table.cells[2][2].fill = NoFill
    /\ slides[1].table.cells[2][2].text = ""
    /\ slides[1].table.cells[3][2].text = "x"

\* The block holds one paragraph more than the list has items: paragraph 0 is
\* empty, and paragraph n + 1 carries item n (paragraphs and items counted
\* from 0; the sequences here are indexed from 1).
LeadingEmptyParagraph(block, list) ==
    /\ Len(block) = Len(list) + 1
    /\ block[1] = ""
    /\ \A n \in 0..(Len(list) - 1) : block[n + 2] = list[n + 1]

\* C21: the text blocks built by add_content_slide and add_two_column_slide
\* start with one empty paragraph that belongs to no item: the body of a
\* content slide and each column of a two-column slide hold n + 1 paragraphs
\* for n items, the first one empty, the others the items in order.
C21_BlocksStartWithEmptyParagraph ==
    \A i \in 1..Len(script) :
        CallMade(i) =>
            /\ script[i].kind = "content" =>
                  LeadingEmptyParagraph(slides[i].body, script[i].items)
            /\ script[i].kind = "two_column" =>
                  /\ LeadingEmptyParagraph(slides[i].left, script[i].left)
                  /\ LeadingEmptyParagraph(slides[i].right, script[i].right)

\* A two-column call with a non-empty left list and an empty right list has
\* been made: the right block is the single empty paragraph, the left block
\* has it in front of its items.
C21_Witness ==
    /\ k = 1
    /\ script[1].kind = "two_column"
    /\ script[1].left = <<"a", "a">>
    /\ script[1].right = <<>>
    /\ slides[1].left = <<"", "a", "a">>
    /\ slides[1].right = <<"">>

\* The number of calls of the given kind among the first n of the script.
CallsOfKind(kind, n) == Cardinality({i \in 1..n : script[i].kind = kind})

\* create_presentation has returned: main is at the save, or past it.
PresentationReturned == pc \in {"save", "done", "save_raised"}

\* C22: when create_presentation has run its script and returned, it has made
\* exactly 48 constructor calls, 7 title, 21 bulleted, 6 two-column, 13 table
\* and 1 chart; the deck holds exactly 48 slides, the first one the workshop
\* title slide and the last one the 'Stay Connected' title slide; and the
\* slide total main reports is 48.
C22_FortyEightSlides ==
    (script = WorkshopScript /\ PresentationReturned) =>
        /\ k = 48
        /\ raised_at = 0
        /\ CallsOfKind("title", k) = 7
        /\ CallsOfKind("content", k) = 21
        /\ CallsOfKind("two_column", k) = 6
        /\ CallsOfKind("table", k) = 13
        /\ CallsOfKind("chart", k) = 1
        /\ Len(slides) = 48
        /\ \A i \in 1..48 : slides[i].kind = script[i].kind
        /\ slides[1].kind = "title"
        /\ slides[1].title = "How to Write Effective KPIs and SMART Objectives"
        /\ slides[48].kind = "title"
        /\ slides[48].title = "Stay Connected"
        /\ pc = "done" => reported = 48

\* The run of the whole script has ended: the file is written and the total
\* is reported.
C22_Witness ==
    /\ script = WorkshopScript
    /\ pc = "done"
    /\ file.written
    /\ Len(file.slides) = 48
    /\ reported = 48

====
